---- MODULE Spec2Model ----
(***************************************************************************)
(* RedditDataCollector (src/app/main.py): search_posts, get_comments,      *)
(* save_data and main, as a state machine.  The Reddit API is the          *)
(* environment: it decides which submissions a search yields, where a      *)
(* search raises, what comment tree a submission has and which fetch       *)
(* raises.                                                                 *)
(***************************************************************************)
EXTENDS Integers, Sequences, FiniteSets, TLC

\* An optional argument: Python's None, or a value v held as Some(v).
None == <<>>
Some(v) == <<v>>

\* ------------------------------------------------------------------ bounds
\* Submissions the platform holds: post ids 1..NumPosts.
NumPosts == 2
\* Largest `limit` passed to search_posts (results per keyword per subreddit).
MaxLimit == 2

\* Longest list of post ids passed to get_comments directly.
MaxIds == 2
\* Most top-level comments, and most replies, of one submission.
MaxTop == 2
MaxReplies == 1
\* Largest comment cap (`limit`) passed to get_comments.
MaxCap == 2
\* Clock readings datetime.now() can return: 0..MaxClock.
MaxClock == 1

\* The subreddit and keyword lists are prefixes of these lists of names.
SubredditNames == <<"alpha", "ghost">>
KeywordNames == <<"x", "y">>

Posts == 1..NumPosts

Prefixes(s) == {SubSeq(s, 1, k) : k \in 0..Len(s)}

\* ------------------------------------------------------------- environment
\* submission.created_utc: epoch seconds of a post.
created_utc(p) == p

\* datetime.fromtimestamp: epoch seconds to a naive local datetime, i.e. the
\* epoch shifted by the local UTC offset.
UtcOffset == 3
fromtimestamp(t) == t + UtcOffset

Dates == {fromtimestamp(created_utc(p)) : p \in Posts}

\* Comment trees a submission can have once replace_more(limit=0) has removed
\* the MoreComments placeholders: top-level comments 1..top, then replies
\* top+1..top+replies (a reply needs a comment to reply to).
Trees ==
    {tr \in [top : 0..MaxTop, replies : 0..MaxReplies] :
        tr.top = 0 => tr.replies = 0}

\* Lists of distinct post ids of length at most k (main passes the ids of the
\* deduplicated post table).
IdLists(k) ==
    {l \in UNION {[1..m -> Posts] : m \in 0..k} :
        \A i, j \in DOMAIN l : l[i] = l[j] => i = j}

VARIABLES
    entry,        \* the function called: "main", "search_posts", "get_comments"
    pc,           \* position in the program
    subreddits,   \* search_posts argument
    keywords,     \* search_posts argument
    start_date,   \* search_posts argument (None or a datetime)
    end_date,     \* search_posts argument (None or a datetime)
    limit,        \* search_posts argument
    si,           \* index of subreddit_name in subreddits (outer for loop)
    ki,           \* index of keyword in keywords; 0: subreddit not resolved yet
    n,            \* submissions the current search has yielded
    all_results,  \* search_posts local list
    posts_df,     \* the table search_posts returns
    yielded,      \* history: submissions the searches yielded
    searched,     \* history: the (subreddit, keyword) searches issued, in order
    failed,       \* history: where each failing subreddit raised
    collect_comments, \* STUDY_CONFIG['collect_comments']
    post_ids,       \* get_comments argument
    top_level_only, \* get_comments argument
    comment_limit,  \* get_comments argument `limit` (None or a number)
    ci,             \* index of post_id in post_ids (idx + 1)
    all_comments,   \* get_comments local list
    comments_df,    \* main's comments_df: None or Some(table)
    fetches,        \* history: the comment fetches issued, in order
    writes,         \* the to_csv calls made, in order
    saved           \* what save_data returned: None or Some(filename)

searchVars == <<subreddits, keywords, start_date, end_date, limit, si, ki, n,
                all_results, posts_df, yielded, searched, failed>>

commentVars == <<post_ids, top_level_only, comment_limit, ci, all_comments,
                 comments_df, fetches>>

saveVars == <<writes, saved>>

vars == <<entry, pc, collect_comments, searchVars, commentVars, saveVars>>

\* ------------------------------------------------------------ search_posts
\* Mutant: the bounds taken as exclusive (<= and >= in the `continue` tests).
InDateRangeExclusive(post_date, lo, hi) ==
    /\ ~(lo # None /\ post_date <= lo[1])
    /\ ~(hi # None /\ post_date >= hi[1])

\* Lines 68-71: the two `continue` tests; a post is kept when neither fires.
InDateRange(post_date, lo, hi) ==
    /\ ~(lo # None /\ post_date < lo[1])
    /\ ~(hi # None /\ post_date > hi[1])

\* Lines 73-88: the record appended for a submission.
PostRow(name, keyword, p) ==
    [subreddit |-> name, search_keyword |-> keyword, post_id |-> p,
     created_utc |-> fromtimestamp(created_utc(p))]

RECURSIVE DropDupFrom(_, _, _)
DropDupFrom(rows, i, seen) ==
    IF i > Len(rows) THEN <<>>
    ELSE IF rows[i].post_id \in seen THEN DropDupFrom(rows, i + 1, seen)
    ELSE <<rows[i]>> \o DropDupFrom(rows, i + 1, seen \cup {rows[i].post_id})

\* Mutant: the duplicates are not dropped.
drop_duplicates_keep_all(rows) == rows

RECURSIVE DropDupLastFrom(_, _)
DropDupLastFrom(rows, i) ==
    IF i > Len(rows) THEN <<>>
    ELSE IF \E j \in (i + 1)..Len(rows) : rows[j].post_id = rows[i].post_id
         THEN DropDupLastFrom(rows, i + 1)
         ELSE <<rows[i]>> \o DropDupLastFrom(rows, i + 1)

\* Mutant: keep='last'.
drop_duplicates_keep_last(rows) == DropDupLastFrom(rows, 1)

\* Line 98: df.drop_duplicates(subset=['post_id'], keep='first').
drop_duplicates(rows) == DropDupFrom(rows, 1, {})

\* Lines 94-101: the table returned for the accumulated list.
PostTable(rows) == IF Len(rows) > 0 THEN drop_duplicates(rows) ELSE rows

\* Mutant: the exception ends the subreddit loop (`break` for `continue`).
ErrorResumeAbort(s, k) == [si |-> Len(subreddits) + 1, ki |-> 0]

\* Lines 90-92: the except clause `continue`s with the next subreddit.
ErrorResume(s, k) == [si |-> s + 1, ki |-> 0]

\* Mutant: the except clause discards the records of the failing subreddit.
ResultsAfterErrorRollback(rows, name) ==
    LET Other(r) == r.subreddit # name IN SelectSeq(rows, Other)

\* Lines 90-92: the except clause leaves all_results as it is.
ResultsAfterError(rows, name) == rows

\* Line 59: entering the search of keyword k of subreddit s issues the search.
Issue(s, k) == IF k >= 1 THEN Append(searched, <<s, k>>) ELSE searched

YieldedHere == {y.post : y \in {z \in yielded : z.sub = si /\ z.kw = ki}}

SearchInit ==
    /\ entry = "search_posts"
    /\ pc = "search"
    /\ subreddits \in Prefixes(SubredditNames)
    /\ keywords \in Prefixes(KeywordNames)
    /\ start_date \in {None} \cup {Some(d) : d \in Dates}
    /\ end_date \in {None} \cup {Some(d) : d \in Dates}
    /\ limit \in 1..MaxLimit
    /\ si = 1
    /\ ki = 0
    /\ n = 0
    /\ all_results = <<>>
    /\ posts_df = <<>>
    /\ yielded = {}
    /\ searched = <<>>
    /\ failed = {}
    /\ collect_comments = TRUE
    /\ post_ids = <<>>
    /\ top_level_only = TRUE
    /\ comment_limit = None
    /\ ci = 1
    /\ all_comments = <<>>
    /\ comments_df = None
    /\ fetches = <<>>
    /\ writes = <<>>
    /\ saved = None

\* What is left alone by search_posts.
searchFrame == <<entry, collect_comments, post_ids, top_level_only,
                 comment_limit, ci, all_comments, comments_df, fetches,
                 writes, saved>>

\* Lines 53-55: the subreddit is resolved and the keyword loop entered.
ResolveSubreddit ==
    /\ pc = "search"
    /\ si <= Len(subreddits)
    /\ ki = 0
    /\ IF Len(keywords) = 0
       THEN /\ si' = si + 1
            /\ UNCHANGED <<ki, searched>>
       ELSE /\ ki' = 1
            /\ searched' = Issue(si, 1)
            /\ si' = si
    /\ n' = 0
    /\ UNCHANGED <<pc, subreddits, keywords, start_date, end_date, limit,
                   all_results, posts_df, yielded, failed>>
    /\ UNCHANGED searchFrame

\* Lines 59-88: the search yields one more submission.
YieldSubmission(p) ==
    /\ pc = "search"
    /\ si <= Len(subreddits)
    /\ ki >= 1
    /\ n < limit
    /\ p \notin YieldedHere
    /\ n' = n + 1
    /\ yielded' = yielded \cup {[sub |-> si, kw |-> ki, post |-> p]}
    /\ all_results' =
         IF InDateRange(fromtimestamp(created_utc(p)), start_date, end_date)
         THEN Append(all_results, PostRow(subreddits[si], keywords[ki], p))
         ELSE all_results
    /\ UNCHANGED <<pc, subreddits, keywords, start_date, end_date, limit,
                   si, ki, posts_df, searched, failed>>
    /\ UNCHANGED searchFrame

\* Lines 55, 59: the search has no more results (or reached limit); the next
\* keyword, or after the last keyword the next subreddit, follows.
SearchExhausted ==
    /\ pc = "search"
    /\ si <= Len(subreddits)
    /\ ki >= 1
    /\ IF ki < Len(keywords)
       THEN /\ ki' = ki + 1
            /\ searched' = Issue(si, ki + 1)
            /\ si' = si
       ELSE /\ si' = si + 1
            /\ ki' = 0
            /\ UNCHANGED searched
    /\ n' = 0
    /\ UNCHANGED <<pc, subreddits, keywords, start_date, end_date, limit,
                   all_results, posts_df, yielded, failed>>
    /\ UNCHANGED searchFrame

\* Lines 52-53, 59, 90-92: resolving the subreddit or a request of the
\* paginated search raises; the except clause reports and continues.
SubredditError ==
    /\ pc = "search"
    /\ si <= Len(subreddits)
    /\ (ki = 0 \/ n < limit)
    /\ failed' = failed \cup {[sub |-> si, kw |-> ki]}
    /\ si' = ErrorResume(si, ki).si
    /\ ki' = ErrorResume(si, ki).ki
    /\ searched' = Issue(ErrorResume(si, ki).si, ErrorResume(si, ki).ki)
    /\ n' = 0
    /\ all_results' = ResultsAfterError(all_results, subreddits[si])
    /\ UNCHANGED <<pc, subreddits, keywords, start_date, end_date, limit,
                   posts_df, yielded>>
    /\ UNCHANGED searchFrame

\* Lines 94-101: the loop is over; build the table, drop duplicates, return
\* (to main at line 245 when main made the call).
ReturnPosts ==
    /\ pc = "search"
    /\ si > Len(subreddits)
    /\ posts_df' = PostTable(all_results)
    /\ pc' = IF entry = "main" THEN "main_branch" ELSE "search_returned"
    /\ UNCHANGED <<subreddits, keywords, start_date, end_date, limit, si, ki,
                   n, all_results, yielded, searched, failed>>
    /\ UNCHANGED searchFrame

SearchNext ==
    \/ ResolveSubreddit
    \/ \E p \in Posts : YieldSubmission(p)
    \/ SearchExhausted
    \/ SubredditError
    \/ ReturnPosts

\* ------------------------------------------------------------ get_comments
\* Lines 129-132: submission.comments (top level) or submission.comments.list()
\* (the flattened tree, top level first), as the list of comment numbers.
CommentView(tr, top_only) ==
    [j \in 1..(IF top_only THEN tr.top ELSE tr.top + tr.replies) |-> j]

\* Lines 136-145: the record appended for a comment.
CommentRow(p, j) == [post_id |-> p, comment_id |-> <<p, j>>]

\* Line 147: `if limit and len(all_comments) >= limit`.
CapReached(rows, lim) == lim # None /\ lim[1] # 0 /\ Len(rows) >= lim[1]

\* Lines 134-148: the inner loop appends the comments of the view in order and
\* breaks out (of this loop) once the cap test fires.
RECURSIVE CollectFrom(_, _, _, _)
CollectFrom(rows, p, view, lim) ==
    IF view = <<>> THEN rows
    ELSE LET more == Append(rows, CommentRow(p, Head(view)))
         IN  IF CapReached(more, lim) THEN more
             ELSE CollectFrom(more, p, Tail(view), lim)

\* Mutant: the exception ends the post loop (`break` for `continue`).
AfterFetchErrorBreak(i) == Len(post_ids) + 1

\* Lines 150-152: the except clause `continue`s with the next post id.
AfterFetchError(i) == i + 1

\* What is left alone by get_comments.
commentFrame == <<entry, collect_comments, searchVars, writes, saved>>

\* Lines 122-148: one post id: its comments are fetched and collected; the
\* break of line 148 leaves the inner loop only, so the next post id follows.
CollectComments(tr) ==
    /\ pc = "comments"
    /\ ci <= Len(post_ids)
    /\ LET rows == CollectFrom(all_comments, post_ids[ci],
                               CommentView(tr, top_level_only), comment_limit)
       IN  /\ all_comments' = rows
           /\ fetches' = Append(fetches,
                [pos |-> ci, ok |-> TRUE, tree |-> tr,
                 before |-> Len(all_comments), after |-> Len(rows)])
           /\ ci' = ci + 1
    /\ UNCHANGED <<pc, post_ids, top_level_only, comment_limit, comments_df>>
    /\ UNCHANGED commentFrame

\* Lines 125-127, 150-152: the fetch raises; the except clause reports and
\* continues.
CommentsError ==
    /\ pc = "comments"
    /\ ci <= Len(post_ids)
    /\ fetches' = Append(fetches,
         [pos |-> ci, ok |-> FALSE, tree |-> [top |-> 0, replies |-> 0],
          before |-> Len(all_comments), after |-> Len(all_comments)])
    /\ ci' = AfterFetchError(ci)
    /\ UNCHANGED <<pc, post_ids, top_level_only, comment_limit, all_comments,
                   comments_df>>
    /\ UNCHANGED commentFrame

\* Line 154: the loop is over; return the table (to main at line 254 when main
\* made the call).
ReturnComments ==
    /\ pc = "comments"
    /\ ci > Len(post_ids)
    /\ comments_df' = Some(all_comments)
    /\ pc' = IF entry = "main" THEN "save" ELSE "comments_returned"
    /\ UNCHANGED <<post_ids, top_level_only, comment_limit, ci, all_comments,
                   fetches>>
    /\ UNCHANGED commentFrame

CommentsNext ==
    \/ \E tr \in Trees : CollectComments(tr)
    \/ CommentsError
    \/ ReturnComments

CommentsInit ==
    /\ entry = "get_comments"
    /\ pc = "comments"
    /\ post_ids \in IdLists(MaxIds)
    /\ top_level_only \in BOOLEAN
    /\ comment_limit \in {None} \cup {Some(c) : c \in 0..MaxCap}
    /\ ci = 1
    /\ all_comments = <<>>
    /\ comments_df = None
    /\ fetches = <<>>
    /\ collect_comments = TRUE
    /\ subreddits = <<>>
    /\ keywords = <<>>
    /\ start_date = None
    /\ end_date = None
    /\ limit = 1
    /\ si = 1
    /\ ki = 0
    /\ n = 0
    /\ all_results = <<>>
    /\ posts_df = <<>>
    /\ yielded = {}
    /\ searched = <<>>
    /\ failed = {}
    /\ writes = <<>>
    /\ saved = None

\* --------------------------------------------------------------- save_data
\* datetime.now() is read in ticks of half a second; strftime('%Y%m%d_%H%M%S')
\* keeps whole seconds.
TicksPerSecond == 2
strftime(t) == t \div TicksPerSecond

\* Lines 160, 165: f"{output_prefix}_{label}_{timestamp}.csv".
Filename(prefix, label, timestamp) == <<prefix, label, timestamp>>

\* Mutant: the length test is dropped.
HasCommentsNotNone(cdf) == cdf # None

\* Line 164: `comments_df is not None and len(comments_df) > 0`.
HasComments(cdf) == cdf # None /\ Len(cdf[1]) > 0

\* Lines 158-169: save_data, called by main with STUDY_CONFIG's prefix.
SaveData(now) ==
    /\ pc = "save"
    /\ LET timestamp == strftime(now)
           posts_filename == Filename("study", "posts", timestamp)
           comments_filename == Filename("study", "comments", timestamp)
           first == <<[name |-> posts_filename, rows |-> posts_df]>>
       IN  /\ writes' = writes \o first \o
                 (IF HasComments(comments_df)
                  THEN <<[name |-> comments_filename, rows |-> comments_df[1]]>>
                  ELSE <<>>)
           /\ saved' = Some(posts_filename)
    /\ pc' = "done"
    /\ UNCHANGED <<entry, collect_comments, searchVars, commentVars>>

\* -------------------------------------------------------------------- main
\* Mutant: the toggle is not consulted.
ShouldCollectAnyway(collect, pdf) == Len(pdf) > 0

\* Line 247: `STUDY_CONFIG['collect_comments'] and len(posts_df) > 0`.
ShouldCollect(collect, pdf) == collect /\ Len(pdf) > 0

\* Line 250: posts_df['post_id'].tolist().
PostIdList(pdf) == [i \in 1..Len(pdf) |-> pdf[i].post_id]

\* Lines 246-252: comments_df = None, then get_comments is called (without a
\* limit) or skipped.  search_posts has returned: its frame and the history
\* of its call are gone.
MainBranch ==
    /\ pc = "main_branch"
    /\ IF ShouldCollect(collect_comments, posts_df)
       THEN /\ pc' = "comments"
            /\ post_ids' = PostIdList(posts_df)
       ELSE /\ pc' = "save"
            /\ UNCHANGED post_ids
    /\ comment_limit' = None
    /\ comments_df' = None
    /\ ci' = 1
    /\ all_comments' = <<>>
    /\ si' = 1
    /\ ki' = 0
    /\ n' = 0
    /\ all_results' = <<>>
    /\ yielded' = {}
    /\ searched' = <<>>
    /\ failed' = {}
    /\ UNCHANGED <<entry, collect_comments, subreddits, keywords, start_date,
                   end_date, limit, posts_df, top_level_only, fetches,
                   writes, saved>>

\* Lines 187-224: STUDY_CONFIG, scaled: both lists in full, a date window
\* with both bounds set, the largest limit; the two toggles are free.
MainInit ==
    /\ entry = "main"
    /\ pc = "search"
    /\ subreddits = SubredditNames
    /\ keywords = KeywordNames
    /\ start_date = Some(fromtimestamp(created_utc(2)))
    /\ end_date = Some(fromtimestamp(created_utc(NumPosts)))
    /\ limit = MaxLimit
    /\ collect_comments \in BOOLEAN
    /\ top_level_only \in BOOLEAN
    /\ si = 1
    /\ ki = 0
    /\ n = 0
    /\ all_results = <<>>
    /\ posts_df = <<>>
    /\ yielded = {}
    /\ searched = <<>>
    /\ failed = {}
    /\ post_ids = <<>>
    /\ comment_limit = None
    /\ ci = 1
    /\ all_comments = <<>>
    /\ comments_df = None
    /\ fetches = <<>>
    /\ writes = <<>>
    /\ saved = None

Next ==
    \/ ResolveSubreddit
    \/ \E p \in Posts : YieldSubmission(p)
    \/ SearchExhausted
    \/ SubredditError
    \/ ReturnPosts
    \/ MainBranch
    \/ \E tr \in Trees : CollectComments(tr)
    \/ CommentsError
    \/ ReturnComments
    \/ \E now \in 0..MaxClock : SaveData(now)

Spec == MainInit /\ [][Next]_vars

SpecSearch == SearchInit /\ [][SearchNext]_vars

SpecComments == CommentsInit /\ [][CommentsNext]_vars

\* ================================================================== claims
Returned == pc = "search_returned"

PostDate(p) == fromtimestamp(created_utc(p))

\* Post ids of a table.
Ids(df) == {df[i].post_id : i \in DOMAIN df}

FailedSubs == {f.sub : f \in failed}

\* Yield a is not later than yield b in iteration order.
NotLater(a, b) == a.sub < b.sub \/ (a.sub = b.sub /\ a.kw <= b.kw)

\* C1: the post table search_posts returns holds no two records with the
\* same post identifier.
NoDuplicatePostIds ==
    Returned =>
        \A i, j \in DOMAIN posts_df :
            posts_df[i].post_id = posts_df[j].post_id => i = j

\* C1 witness: a post collected by several searches, with a failing
\* subreddit in the run, and the table returned.
DuplicatesCollapsed ==
    /\ Returned
    /\ Len(all_results) > Len(posts_df)
    /\ failed # {}

\* C7: the record kept for a post carries the subreddit and keyword of the
\* first search, in iteration order, that yielded it.
FirstSeenTag ==
    Returned =>
        \A i \in DOMAIN posts_df :
            \E y \in yielded :
                /\ y.post = posts_df[i].post_id
                /\ \A z \in yielded : z.post = y.post => NotLater(y, z)
                /\ posts_df[i].subreddit = subreddits[y.sub]
                /\ posts_df[i].search_keyword = keywords[y.kw]

\* C7 witness: one subreddit, keywords x and y both yielding the post kept.
SamePostUnderTwoKeywords ==
    /\ Returned
    /\ \E y, z \in yielded :
        /\ y.post = z.post
        /\ y.sub = z.sub
        /\ y.kw < z.kw
        /\ y.post \in Ids(posts_df)

\* C8: a yielded post created before the start bound or after the end bound
\* is absent from the table; one created exactly at a bound (and not outside
\* the other) is present; with no bound no yielded post is absent.
DateBoundsInclusive ==
    Returned =>
        \A y \in yielded :
            LET d == PostDate(y.post)
                in_table == y.post \in Ids(posts_df)
            IN  /\ (start_date # None /\ d < start_date[1]) => ~in_table
                /\ (end_date # None /\ d > end_date[1]) => ~in_table
                /\ (/\ start_date # None
                    /\ d = start_date[1]
                    /\ (end_date = None \/ d <= end_date[1])) => in_table
                /\ (/\ end_date # None
                    /\ d = end_date[1]
                    /\ (start_date = None \/ d >= start_date[1])) => in_table
                /\ (start_date = None /\ end_date = None) => in_table

\* C8 witness: both bounds given, a post at the start bound kept, a post at
\* the end bound kept and a post before the start bound dropped.
PostsAtAndOutsideBounds ==
    /\ Returned
    /\ start_date # None
    /\ end_date # None
    /\ \E x, y, z \in yielded :
        /\ PostDate(x.post) = start_date[1]
        /\ x.post \in Ids(posts_df)
        /\ PostDate(y.post) = end_date[1]
        /\ y.post \in Ids(posts_df)
        /\ PostDate(z.post) < start_date[1]
        /\ z.post \notin Ids(posts_df)

\* C5: search_posts returns whatever subreddits fail, and each subreddit
\* that does not fail was searched under every keyword in order and has each
\* post it yielded that passes the date bounds in the table, once.
FailureLeavesOthersUnaffected ==
    Returned =>
        \A s \in 1..Len(subreddits) :
            s \notin FailedSubs =>
                LET Of(e) == e[1] = s
                IN  /\ SelectSeq(searched, Of) =
                           [k \in 1..Len(keywords) |-> <<s, k>>]
                    /\ \A y \in yielded :
                           (y.sub = s /\ InDateRange(PostDate(y.post),
                                                     start_date, end_date))
                           => Cardinality({i \in DOMAIN posts_df :
                                  posts_df[i].post_id = y.post}) = 1

\* C5 witness: the first subreddit fails, the second does not and has a
\* post in the table.
GhostThenAlpha ==
    /\ Returned
    /\ 1 \in FailedSubs
    /\ 2 \notin FailedSubs
    /\ Len(subreddits) = 2
    /\ \E y \in yielded : y.sub = 2 /\ y.post \in Ids(posts_df)

CommentsReturned == pc = "comments_returned"

\* A positive comment cap was passed.
CapSet == comment_limit # None /\ comment_limit[1] > 0

\* C2 as claimed: with a positive cap C the table get_comments returns holds
\* at most C records.
CapBoundsTotal ==
    (CommentsReturned /\ CapSet) => Len(comments_df[1]) <= comment_limit[1]

\* C3 as claimed: once the running total has reached the cap no fetch is
\* issued for a later post id (and so no further record appended).
CapStopsCollection ==
    CapSet =>
        \A i \in DOMAIN fetches : fetches[i].before < comment_limit[1]

\* The comments of the view fetch f read are in the table.
Included(f) ==
    \A j \in 1..Len(CommentView(f.tree, top_level_only)) :
        \E r \in DOMAIN all_comments :
            all_comments[r] = CommentRow(post_ids[f.pos], j)

Written(label) == {w \in DOMAIN writes : writes[w].name[2] = label}

\* C9: with the toggle off main never calls get_comments, no fetch is issued
\* and no comments file is written.
ToggleOffNoComments ==
    ~collect_comments =>
        /\ pc # "comments"
        /\ fetches = <<>>
        /\ comments_df = None
        /\ Written("comments") = {}

\* C9 witness: a finished run with the toggle off whose search returned posts.
ToggleOffRunWithPosts ==
    /\ pc = "done"
    /\ ~collect_comments
    /\ Len(posts_df) > 0
    /\ Written("posts") # {}

\* C10: save_data writes the posts file once, with the post table, and
\* returns its name; it writes the comments file, once, exactly when a
\* comment table was passed that holds a record.
SaveDataFiles ==
    pc = "done" =>
        /\ Cardinality(Written("posts")) = 1
        /\ \A w \in Written("posts") :
               writes[w].rows = posts_df /\ saved = Some(writes[w].name)
        /\ Written("comments") # {}
               <=> (comments_df # None /\ Len(comments_df[1]) > 0)
        /\ Cardinality(Written("comments")) <= 1
        /\ \A w \in Written("comments") : writes[w].rows = comments_df[1]
        /\ Written("posts") \cup Written("comments") = DOMAIN writes

\* C10 witness: comments were requested and none collected: the posts file
\* alone is written.
EmptyCommentsOmitted ==
    /\ pc = "done"
    /\ comments_df # None
    /\ Len(comments_df[1]) = 0
    /\ Len(writes) = 1

====
